---- MODULE Spec2Model ----
(***************************************************************************)
(* The Home component of src/app/page.tsx as a state machine: its React    *)
(* state, its three effects, the two asynchronous fetches with their       *)
(* requests in flight, and the refresh timer.                              *)
(*                                                                         *)
(* React's part is modelled as follows.  A handler's setState calls are    *)
(* applied together and commit one render (automatic batching); a setState *)
(* of a primitive to the value it already has commits nothing, a setState  *)
(* of a fresh array or object always commits.  The passive effects of a    *)
(* committed render run later (RunEffects); React flushes them before it   *)
(* renders the next update, so an event that arrives while they are        *)
(* pending runs them first (Begin).  setState on an unmounted component    *)
(* does nothing.                                                           *)
(*                                                                         *)
(* Schedules.  Timer ticks, responses and the inputs of the header and the *)
(* search box are taken one at a time, each after the effects of the       *)
(* render before it have run.  The click on a list entry and the unmount   *)
(* are also taken while effects are pending: the list is on screen only    *)
(* while loading is false, and every run of the refresh effect sets        *)
(* loading to true.                                                        *)
(***************************************************************************)
EXTENDS Integers, Sequences, FiniteSets, Bags, TLC

VARIABLES
  chartOptions,      \* the module-level chartOptions: its tick and y-grid colours
  darkMode,          \* useState(false)
  searchQuery,       \* useState("")
  cryptocurrencies,  \* useState([])
  filteredCryptos,   \* useState([])
  selectedCrypto,    \* useState("bitcoin")
  chartData,         \* useState({labels: [], datasets: []})
  selectedCurrency,  \* useState("USD")
  loading,           \* useState(true)
  message,           \* useState("")
  mounted,           \* the component is in the tree
  effectsPending,    \* a render is committed whose effects have not run yet
  filterDirty,       \* [searchQuery, cryptocurrencies] changed in that render
  themeDirty,        \* [darkMode] changed in that render
  listingInFlight,   \* axios.get(.../coins/markets...) not yet settled, in issue order
  chartInFlight,     \* axios.get(.../market_chart...) not yet settled (a bag)
  timers,            \* live setInterval timers, each with the closure it calls
  interval,          \* the handle the refresh effect's cleanup will clear (0: none)
  renderCause,       \* history: the event that committed the pending render
  renderSel,         \* history: that render follows from the last asset selection
  stalePrefix,       \* history: see Resolved
  lastResolved,      \* history: the payload of the listing response resolved last
  sel,               \* history: the history fetches that follow from the last selection
  ev                 \* history: the event handled last

vars == <<chartOptions, themeDirty, darkMode, searchQuery, cryptocurrencies, filteredCryptos, selectedCrypto,
          chartData, selectedCurrency, loading, message, mounted, effectsPending,
          filterDirty, listingInFlight, chartInFlight, timers, interval,
          renderCause, renderSel, stalePrefix, lastResolved, sel, ev>>

---------------------------------------------------------------------------
(* Bounds *)

\* how many of CURRENCIES the user picks from
MaxCur == 2
\* listing requests in flight at once
MaxListing == 5
\* history requests in flight at once
MaxChart == 6
\* length of the asset sequences the filter is tried on (SpecFilter)
MaxAssets == 2
\* length of the query strings the filter is tried on (SpecFilter)
MaxQuery == 2

---------------------------------------------------------------------------
(* Strings are sequences of one-character strings. *)

UpperCase == <<"A","B","C","D","E","F","G","H","I","J","K","L","M",
               "N","O","P","Q","R","S","T","U","V","W","X","Y","Z">>
LowerCase == <<"a","b","c","d","e","f","g","h","i","j","k","l","m",
               "n","o","p","q","r","s","t","u","v","w","x","y","z">>

LowerChar(c) ==
  IF \E i \in 1..Len(UpperCase) : UpperCase[i] = c
    THEN LowerCase[CHOOSE i \in 1..Len(UpperCase) : UpperCase[i] = c]
    ELSE c

\* String.prototype.toLowerCase
toLowerCase(s) == [i \in 1..Len(s) |-> LowerChar(s[i])]

\* String.prototype.includes
includes(s, q) == \E i \in 1..(Len(s) - Len(q) + 1) : SubSeq(s, i, i + Len(q) - 1) = q

CURRENCIES == << <<"U","S","D">>, <<"E","U","R">>, <<"G","B","P">>, <<"J","P","Y">> >>

Currencies == {CURRENCIES[i] : i \in 1..(IF MaxCur < Len(CURRENCIES) THEN MaxCur ELSE Len(CURRENCIES))}

Bitcoin == [id |-> "bitcoin",  symbol |-> <<"b","t","c">>, name |-> <<"B","i","t","c","o","i","n">>]
Ethereum == [id |-> "ethereum", symbol |-> <<"e","t","h">>, name |-> <<"E","t","h","e","r","e","u","m">>]

\* what /coins/markets may answer
ListingPayloads == { <<Bitcoin, Ethereum>>, <<Ethereum>> }

\* what /market_chart may answer: prices as <<timestamp, price>> pairs
ChartPayloads == { << <<86400000, 5>>, <<172800000, 7>> >> }

\* what the user may type into the search box
Queries == { <<>>, <<"e","T","h">> }

EmptyMessage == ""
SuccessMessage == "Data fetched successfully!"
ListingFailedMessage == "Failed to fetch cryptocurrency data. Please try again later."
ChartFailedMessage   == "Failed to load chart data."

\* new Date(timestamp).toLocaleDateString(): the calendar day of the timestamp
toLocaleDateString(timestamp) == timestamp \div 86400000

\* chartOptions as declared, lines 51-78: no tick colour yet
InitialChartOptions == [ticks |-> "", grid |-> "rgba(0, 0, 0, 0.1)"]

EmptyChart == [labels |-> <<>>, data |-> <<>>, forId |-> "", forVs |-> <<>>]

\* the object handed to setChartData; forId and forVs are history fields
\* recording which request the series answers
ChartOf(prices, req) ==
  [labels |-> [i \in 1..Len(prices) |-> toLocaleDateString(prices[i][1])],
   data   |-> [i \in 1..Len(prices) |-> prices[i][2]],
   forId  |-> req.id,
   forVs  |-> req.vs]

---------------------------------------------------------------------------
(* The filter of the third effect *)

\* FilterCryptos with the query compared as typed
FilterCryptosCaseSensitive(cryptos, query) ==
  SelectSeq(cryptos, LAMBDA crypto :
     \/ includes(toLowerCase(crypto.name), query)
     \/ includes(toLowerCase(crypto.symbol), query))

FilterCryptos(cryptos, query) ==
  SelectSeq(cryptos, LAMBDA crypto :
     \/ includes(toLowerCase(crypto.name), toLowerCase(query))
     \/ includes(toLowerCase(crypto.symbol), toLowerCase(query)))

---------------------------------------------------------------------------
(* The world: every variable in one record, so that handlers compose. *)

\* ev, the event handled last: its type, the payload applied, what invoked
\* fetchCryptoData in it (causes), and how the state it left compares with the
\* state before it and with the state when the settled request was issued
NoEvent == [type |-> "none", data |-> <<>>, causes |-> {},
            prevSet |-> <<>>, prevMessage |-> "", invoked |-> 0,
            setKept |-> TRUE, setAsIssued |-> TRUE,
            chartKept |-> TRUE, chartAsIssued |-> TRUE,
            settled |-> 0, issued |-> 0, stale |-> FALSE]

NoSel == [active |-> FALSE, count |-> 0, id |-> "", ok |-> TRUE]

World ==
  [chartOptions |-> chartOptions, themeDirty |-> themeDirty,
   darkMode |-> darkMode, searchQuery |-> searchQuery,
   cryptocurrencies |-> cryptocurrencies, filteredCryptos |-> filteredCryptos,
   selectedCrypto |-> selectedCrypto, chartData |-> chartData,
   selectedCurrency |-> selectedCurrency, loading |-> loading, message |-> message,
   mounted |-> mounted, effectsPending |-> effectsPending, filterDirty |-> filterDirty,
   listingInFlight |-> listingInFlight, chartInFlight |-> chartInFlight,
   timers |-> timers, interval |-> interval,
   renderCause |-> renderCause, renderSel |-> renderSel,
   stalePrefix |-> stalePrefix, lastResolved |-> lastResolved, sel |-> sel,
   running |-> "none", runningSel |-> FALSE, causes |-> <<>>]

Commit(w) ==
  /\ chartOptions' = w.chartOptions
  /\ themeDirty' = w.themeDirty
  /\ darkMode' = w.darkMode
  /\ searchQuery' = w.searchQuery
  /\ cryptocurrencies' = w.cryptocurrencies
  /\ filteredCryptos' = w.filteredCryptos
  /\ selectedCrypto' = w.selectedCrypto
  /\ chartData' = w.chartData
  /\ selectedCurrency' = w.selectedCurrency
  /\ loading' = w.loading
  /\ message' = w.message
  /\ mounted' = w.mounted
  /\ effectsPending' = w.effectsPending
  /\ filterDirty' = w.filterDirty
  /\ listingInFlight' = w.listingInFlight
  /\ chartInFlight' = w.chartInFlight
  /\ timers' = w.timers
  /\ interval' = w.interval
  /\ renderCause' = w.renderCause
  /\ renderSel' = w.renderSel
  /\ stalePrefix' = w.stalePrefix
  /\ lastResolved' = w.lastResolved
  /\ sel' = w.sel

\* the model's bound on the requests in flight
WithinBounds(w) ==
  /\ Len(w.listingInFlight) <= MaxListing
  /\ BagCardinality(w.chartInFlight) <= MaxChart

\* a state setter given a primitive: React bails out when the value is the same
setState(w, field, value) ==
  IF ~w.mounted \/ w[field] = value THEN w
  ELSE [w EXCEPT ![field] = value, !.effectsPending = TRUE,
                 !.renderCause = w.running, !.renderSel = w.runningSel,
                 !.filterDirty = @ \/ field = "searchQuery",
                 !.themeDirty = @ \/ field = "darkMode"]

\* a state setter given a fresh array or object: never the same by Object.is
setStateObject(w, field, value) ==
  IF ~w.mounted THEN w
  ELSE [w EXCEPT ![field] = value, !.effectsPending = TRUE,
                 !.renderCause = w.running, !.renderSel = w.runningSel,
                 !.filterDirty = @ \/ field = "cryptocurrencies"]

---------------------------------------------------------------------------
(* fetchCryptoData, lines 145-162 *)

ListingRequest(w, currency) ==
  [vs |-> toLowerCase(currency), issuedSet |-> w.cryptocurrencies]

\* up to the await: the two setters and the request; `currency` is the
\* selectedCurrency of the render whose closure is called
fetchCryptoData(w, currency) ==
  LET w1 == setState(w, "loading", TRUE)
      w2 == setState(w1, "message", EmptyMessage)
  IN [w2 EXCEPT !.listingInFlight = Append(@, ListingRequest(w, currency)),
                !.causes = Append(@, IF w.running = "effect" THEN w.renderCause
                                                           ELSE w.running)]

RemoveAt(s, i) == SubSeq(s, 1, i - 1) \o SubSeq(s, i + 1, Len(s))

\* request i leaves the requests in flight, rejected
Rejected(w, i) ==
  [w EXCEPT !.listingInFlight = RemoveAt(@, i),
            !.stalePrefix = IF i <= @ THEN @ - 1 ELSE @]

\* request i leaves the requests in flight, resolved with `data`.  History:
\* lastResolved is that payload, and stalePrefix counts the oldest requests
\* in flight that were issued before a request that has resolved
Resolved(w, i, data) ==
  [w EXCEPT !.listingInFlight = RemoveAt(@, i),
            !.lastResolved = data,
            !.stalePrefix = IF i - 1 > @ THEN i - 1
                            ELSE IF i <= @ THEN @ - 1 ELSE @]

\* fetchCryptoDataResolved merging the response into the set it finds
fetchCryptoDataResolvedMerging(w, i, data) ==
  LET w1 == setStateObject(Resolved(w, i, data), "cryptocurrencies",
                           w.cryptocurrencies \o data)
      w2 == setState(w1, "loading", FALSE)
  IN setState(w2, "message", SuccessMessage)

\* fetchCryptoDataResolved dropping the response of a request that was issued
\* before one already resolved
fetchCryptoDataResolvedInOrder(w, i, data) ==
  IF i <= w.stalePrefix THEN Resolved(w, i, data)
  ELSE LET w1 == setStateObject(Resolved(w, i, data), "cryptocurrencies", data)
           w2 == setState(w1, "loading", FALSE)
       IN setState(w2, "message", SuccessMessage)

\* after the await, the try branch (lines 152-154)
fetchCryptoDataResolved(w, i, data) ==
  LET w1 == setStateObject(Resolved(w, i, data), "cryptocurrencies", data)
      w2 == setState(w1, "loading", FALSE)
  IN setState(w2, "message", SuccessMessage)

\* fetchCryptoDataRejected emptying the set
fetchCryptoDataRejectedClearing(w, i) ==
  LET w1 == setState(Rejected(w, i), "message", ListingFailedMessage)
      w2 == setState(w1, "loading", FALSE)
  IN setStateObject(w2, "cryptocurrencies", <<>>)

\* after the await, the catch branch (lines 155-161)
fetchCryptoDataRejected(w, i) ==
  LET w1 == setState(Rejected(w, i), "message", ListingFailedMessage)
  IN setState(w1, "loading", FALSE)

---------------------------------------------------------------------------
(* fetchChartData, lines 165-198 *)

ChartRequest(w, id, currency) ==
  [id |-> id, vs |-> toLowerCase(currency), sel |-> w.runningSel,
   issuedChart |-> w.chartData]

\* history: one more history fetch follows from the last selection
CountSel(w, req) ==
  IF ~req.sel THEN w.sel
  ELSE [w.sel EXCEPT !.count = IF @ < 2 THEN @ + 1 ELSE @,
                     !.ok = @ /\ req.id = w.sel.id
                              /\ req.vs = toLowerCase(w.selectedCurrency)]

fetchChartData(w, id, currency) ==
  LET w1 == setState(w, "message", EmptyMessage)
      req == ChartRequest(w, id, currency)
  IN [w1 EXCEPT !.chartInFlight = @ (+) SetToBag({req}),
                !.sel = CountSel(w, req)]

\* after the await, the try branch (lines 172-193)
fetchChartDataResolved(w, req, prices) ==
  setStateObject([w EXCEPT !.chartInFlight = @ (-) SetToBag({req})],
                 "chartData", ChartOf(prices, req))

\* fetchChartDataRejected emptying the chart
fetchChartDataRejectedClearing(w, req) ==
  setStateObject(setState([w EXCEPT !.chartInFlight = @ (-) SetToBag({req})],
                          "message", ChartFailedMessage),
                 "chartData", EmptyChart)

\* after the await, the catch branch (lines 194-197)
fetchChartDataRejected(w, req) ==
  setState([w EXCEPT !.chartInFlight = @ (-) SetToBag({req})],
           "message", ChartFailedMessage)

---------------------------------------------------------------------------
(* The effects, lines 119-142 *)

clearInterval(w, handle) ==
  [w EXCEPT !.timers = {t \in @ : t.handle # handle}]

\* setInterval(fetchCryptoData, 60000): a fresh handle, and the closure the
\* timer calls, which reads the selectedCurrency of the render that made it
setInterval(w, currency) ==
  LET handle == CHOOSE h \in 1..(Cardinality(w.timers) + 1) :
                   \A t \in w.timers : t.handle # h
  IN [w EXCEPT !.timers = @ \cup {[handle |-> handle, currency |-> currency]},
               !.interval = handle]

\* RefreshEffect returning no cleanup
RefreshEffectNoCleanup(w) ==
  setInterval(fetchCryptoData(w, w.selectedCurrency), w.selectedCurrency)

\* lines 120-125, no dependency array: its cleanup, then its body, after
\* every render
RefreshEffect(w) ==
  setInterval(fetchCryptoData(clearInterval(w, w.interval), w.selectedCurrency),
              w.selectedCurrency)

\* lines 128-132, no dependency array: after every render
ChartEffect(w) ==
  IF w.selectedCrypto # "" THEN fetchChartData(w, w.selectedCrypto, w.selectedCurrency)
  ELSE w

\* lines 135-142, dependencies [searchQuery, cryptocurrencies]
FilterEffect(w) ==
  setStateObject(w, "filteredCryptos", FilterCryptos(w.cryptocurrencies, w.searchQuery))

\* lines 98-117, dependencies [darkMode]
ThemeEffect(w) ==
  [w EXCEPT !.chartOptions =
     [ticks |-> IF w.darkMode THEN "#fff" ELSE "#666",
      grid  |-> IF w.darkMode THEN "rgba(255, 255, 255, 0.1)" ELSE "rgba(0, 0, 0, 0.1)"]]

\* the passive effects of the committed render, in the order of the source
Effects(w) ==
  LET w0 == [w EXCEPT !.effectsPending = FALSE, !.filterDirty = FALSE,
                      !.themeDirty = FALSE,
                      !.running = "effect", !.runningSel = w.renderSel]
      w1 == IF w.themeDirty THEN ThemeEffect(w0) ELSE w0
      w2 == RefreshEffect(w1)
      w3 == ChartEffect(w2)
  IN IF w.filterDirty THEN FilterEffect(w3) ELSE w3

\* an event begins: pending effects are flushed first
Begin(w, type, fromSel) ==
  [(IF w.mounted /\ w.effectsPending THEN Effects(w) ELSE w)
     EXCEPT !.running = type, !.runningSel = fromSel]

\* unmount: the cleanup of the refresh effect, line 124
Cleanup(w) ==
  [clearInterval(w, w.interval) EXCEPT !.mounted = FALSE, !.effectsPending = FALSE,
                                       !.filterDirty = FALSE, !.themeDirty = FALSE,
                                       !.interval = 0]

---------------------------------------------------------------------------
(* Initial state: the first render is committed, its effects are pending. *)

Init ==
  /\ chartOptions = InitialChartOptions
  /\ themeDirty = TRUE
  /\ darkMode = FALSE
  /\ searchQuery = <<>>
  /\ cryptocurrencies = <<>>
  /\ filteredCryptos = <<>>
  /\ selectedCrypto = "bitcoin"
  /\ chartData = EmptyChart
  /\ selectedCurrency = CURRENCIES[1]
  /\ loading = TRUE
  /\ message = EmptyMessage
  /\ mounted = TRUE
  /\ effectsPending = TRUE
  /\ filterDirty = TRUE
  /\ listingInFlight = <<>>
  /\ chartInFlight = EmptyBag
  /\ timers = {}
  /\ interval = 0
  /\ renderCause = "mount"
  /\ renderSel = FALSE
  /\ stalePrefix = 0
  /\ lastResolved = <<>>
  /\ sel = NoSel
  /\ ev = NoEvent

\* one event: the world it leaves is committed, and recorded in ev.
\* `listing` and `chart` are the request the event settles, <<>> when none.
Step(type, w, listing, chart, data, stale) ==
  /\ WithinBounds(w)
  /\ Commit(w)
  /\ ev' = [type |-> type, data |-> data,
            causes |-> {w.causes[k] : k \in 1..Len(w.causes)},
            prevSet |-> cryptocurrencies, prevMessage |-> message,
            invoked |-> Len(w.causes),
            setKept |-> (w.cryptocurrencies = cryptocurrencies),
            setAsIssued |-> (listing = <<>> \/ w.cryptocurrencies = listing.issuedSet),
            chartKept |-> (w.chartData = chartData),
            chartAsIssued |-> (chart = <<>> \/ w.chartData = chart.issuedChart),
            settled |-> IF listing = <<>> THEN 0 ELSE 1,
            issued |-> Len(w.listingInFlight) - Len(listingInFlight)
                       + (IF listing = <<>> THEN 0 ELSE 1),
            stale |-> stale]

---------------------------------------------------------------------------
(* Actions *)

\* React runs the pending effects of the committed render
RunEffects ==
  /\ mounted /\ effectsPending
  /\ Step("effects", Effects(World), <<>>, <<>>, <<>>, FALSE)

\* line 230: onChange of the currency select
ChangeCurrency ==
  \E currency \in Currencies :
    /\ mounted /\ ~effectsPending
    /\ Step("currency",
            setState(Begin(World, "currency", FALSE), "selectedCurrency", currency),
            <<>>, <<>>, <<>>, FALSE)

\* line 239: onClick of the theme button
ToggleTheme ==
  /\ mounted /\ ~effectsPending
  /\ Step("theme", setState(Begin(World, "theme", FALSE), "darkMode", ~darkMode),
          <<>>, <<>>, <<>>, FALSE)

\* line 273: onChange of the search box
TypeQuery ==
  \E query \in Queries :
    /\ mounted /\ ~effectsPending
    /\ Step("search", setState(Begin(World, "search", FALSE), "searchQuery", query),
            <<>>, <<>>, <<>>, FALSE)

\* the history fields of a new selection: nothing in flight follows from it yet
NewSelection(w, id) ==
  [w EXCEPT
     !.sel = [active |-> TRUE, count |-> 0, id |-> id, ok |-> TRUE],
     !.chartInFlight = LET b == @ IN
        [r \in {[q EXCEPT !.sel = FALSE] : q \in BagToSet(b)} |->
           (IF r \in BagToSet(b) THEN b[r] ELSE 0)
           + (IF [r EXCEPT !.sel = TRUE] \in BagToSet(b)
                THEN b[[r EXCEPT !.sel = TRUE]] ELSE 0)]]

\* line 303: onClick of a list entry; the list is rendered only when not loading
SelectCrypto ==
  \E k \in 1..Len(filteredCryptos) :
    LET id == filteredCryptos[k].id
        w0 == Begin(World, "select", TRUE)
        w1 == IF id = selectedCrypto THEN w0 ELSE NewSelection(w0, id)
    IN /\ mounted /\ ~loading
       /\ Step("select", setState(w1, "selectedCrypto", id), <<>>, <<>>, <<>>, FALSE)

\* a tick of a live refresh timer calls the fetchCryptoData of its closure
TimerTick ==
  \E t \in timers :
    /\ ~effectsPending
    /\ Step("timer", fetchCryptoData(Begin(World, "timer", FALSE), t.currency),
            <<>>, <<>>, <<>>, FALSE)

\* a listing request resolves.  (A response that settles after the unmount
\* changes nothing the view shows and is left out.)
ListingSuccess ==
  \E i \in 1..Len(listingInFlight), data \in ListingPayloads :
    LET w0 == Begin(World, "listingSuccess", FALSE)
    IN /\ mounted /\ ~effectsPending
       /\ Step("listingSuccess", fetchCryptoDataResolved(w0, i, data),
               listingInFlight[i], <<>>, data, i <= stalePrefix)

\* a listing request rejects
ListingFailure ==
  \E i \in 1..Len(listingInFlight) :
    /\ mounted /\ ~effectsPending
    /\ Step("listingFailure",
            fetchCryptoDataRejected(Begin(World, "listingFailure", FALSE), i),
            listingInFlight[i], <<>>, <<>>, FALSE)

\* a history request resolves
ChartSuccess ==
  \E req \in BagToSet(chartInFlight), prices \in ChartPayloads :
    /\ mounted /\ ~effectsPending
    /\ Step("chartSuccess",
            fetchChartDataResolved(Begin(World, "chartSuccess", req.sel), req, prices),
            <<>>, req, <<>>, FALSE)

\* a history request rejects
ChartFailure ==
  \E req \in BagToSet(chartInFlight) :
    /\ mounted /\ ~effectsPending
    /\ Step("chartFailure",
            fetchChartDataRejected(Begin(World, "chartFailure", req.sel), req),
            <<>>, req, <<>>, FALSE)

\* the view is removed
Unmount ==
  /\ mounted
  /\ Step("unmount", Cleanup(Begin(World, "unmount", FALSE)), <<>>, <<>>, <<>>, FALSE)

Next ==
  \/ RunEffects
  \/ ChangeCurrency
  \/ ToggleTheme
  \/ TypeQuery
  \/ SelectCrypto
  \/ TimerTick
  \/ ListingSuccess
  \/ ListingFailure
  \/ ChartSuccess
  \/ ChartFailure
  \/ Unmount

Spec == Init /\ [][Next]_vars

---------------------------------------------------------------------------
(* The filter on its own: SpecFilter draws the asset sequence and the query *)
(* from bounded sets and applies the filter effect to them.                 *)

FilterAlphabet == {"a", "A", "b"}

Strings(n) == UNION {[1..k -> FilterAlphabet] : k \in 0..n}

FilterAssets ==
  { [id |-> "f1", symbol |-> <<"a">>,     name |-> <<"A","b">>],
    [id |-> "f2", symbol |-> <<"B">>,     name |-> <<"b","A">>],
    [id |-> "f3", symbol |-> <<"a","b">>, name |-> <<>>],
    [id |-> "f4", symbol |-> <<"b">>,     name |-> <<"a","a","B">>] }

AssetSequences == UNION {[1..k -> FilterAssets] : k \in 0..MaxAssets}

InitFilter ==
  /\ cryptocurrencies \in AssetSequences
  /\ searchQuery \in Strings(MaxQuery)
  /\ chartOptions = InitialChartOptions
  /\ themeDirty = TRUE
  /\ darkMode = FALSE
  /\ filteredCryptos = <<>>
  /\ selectedCrypto = "bitcoin"
  /\ chartData = EmptyChart
  /\ selectedCurrency = CURRENCIES[1]
  /\ loading = FALSE
  /\ message = EmptyMessage
  /\ mounted = TRUE
  /\ effectsPending = TRUE
  /\ filterDirty = TRUE
  /\ listingInFlight = <<>>
  /\ chartInFlight = EmptyBag
  /\ timers = {}
  /\ interval = 0
  /\ renderCause = "mount"
  /\ renderSel = FALSE
  /\ stalePrefix = 0
  /\ lastResolved = <<>>
  /\ sel = NoSel
  /\ ev = NoEvent

\* the third effect alone
ApplyFilter ==
  /\ filterDirty
  /\ Step("filter",
          FilterEffect([World EXCEPT !.effectsPending = FALSE, !.filterDirty = FALSE]),
          <<>>, <<>>, <<>>, FALSE)

NextFilter == ApplyFilter

SpecFilter == InitFilter /\ [][NextFilter]_vars

---------------------------------------------------------------------------
(* Claims *)

IsListingFailure == ev.type = "listingFailure"
IsChartFailure == ev.type = "chartFailure"
IsListingSuccess == ev.type = "listingSuccess"

\* C1 (as amended): when a listing fetch has failed, the asset set is the
\* asset set of just before the failure was handled, and the message is the
\* listing-failure message.
C1_ListingFailureKeepsAssets ==
  IsListingFailure => ev.setKept /\ message = ListingFailedMessage

\* C1 as stated: when a listing fetch has failed, the asset set is the asset
\* set of when the request was issued, and the message is the listing-failure
\* message.
C1_AssetsAsWhenIssued ==
  IsListingFailure => ev.setAsIssued /\ message = ListingFailedMessage

\* a listing fetch has failed over a non-empty asset set that had replaced
\* the one its request was issued over
C1_Witness ==
  IsListingFailure /\ cryptocurrencies # <<>> /\ ~ev.setAsIssued

\* C2 (as amended): when a history fetch has failed, the chart series is the
\* series of just before the failure was handled (empty when none was ever
\* loaded), and the message is the chart-failure message.
C2_ChartFailureKeepsSeries ==
  IsChartFailure => ev.chartKept /\ message = ChartFailedMessage

\* C2 as stated: when a history fetch has failed, the chart series is the
\* series of when the request was issued, and the message is the
\* chart-failure message.
C2_SeriesAsWhenIssued ==
  IsChartFailure => ev.chartAsIssued /\ message = ChartFailedMessage

\* a history fetch has failed while a series was displayed that had replaced
\* the one its request was issued over
C2_Witness ==
  IsChartFailure /\ Len(chartData.labels) > 0 /\ ~ev.chartAsIssued

C4_ExactlyOneHistoryFetch ==
  sel.active =>
    /\ sel.count <= 1
    /\ sel.ok
    /\ (ev.type = "effects" => sel.count = 1)

ListingTriggers == {"mount", "currency", "timer"}

\* C5 as stated: fetchCryptoData is invoked only for the initial load, for a
\* change of the currency, or by a tick of the timer.
C5_OnlyThreeTriggers ==
  ev.causes \subseteq ListingTriggers

\* C6 as stated: whenever the list is displayed, it is the filter of the
\* current asset set by the current query.
C6_DisplayedListIsCurrent ==
  mounted /\ ~loading =>
    filteredCryptos = FilterCryptos(cryptocurrencies, searchQuery)

ChartDisplayed == selectedCrypto # "" /\ Len(chartData.labels) > 0

\* C7 as stated: a displayed chart series answers a request for the selected
\* asset in the selected currency.
C7_ChartIsForSelection ==
  mounted /\ ChartDisplayed =>
    /\ chartData.forId = selectedCrypto
    /\ chartData.forVs = toLowerCase(selectedCurrency)

\* two letters that differ at most in case
SameLetter(a, b) ==
  \/ a = b
  \/ \E i \in 1..Len(UpperCase) : {a, b} = {UpperCase[i], LowerCase[i]}

\* s contains q as a substring, case ignored
ContainsIgnoringCase(s, q) ==
  \E off \in 0..(Len(s) - Len(q)) :
    \A k \in 1..Len(q) : SameLetter(s[off + k], q[k])

\* the positions of the records the query selects
Selected(S, Q) ==
  {i \in 1..Len(S) : \/ ContainsIgnoringCase(S[i].name, Q)
                     \/ ContainsIgnoringCase(S[i].symbol, Q)}

\* R holds the selected records of S, each once, in the order of S
IsExactFilter(R, S, Q) ==
  /\ Len(R) = Cardinality(Selected(S, Q))
  /\ \A k \in 1..Len(R) :
       R[k] = S[CHOOSE i \in Selected(S, Q) :
                  Cardinality({j \in Selected(S, Q) : j < i}) = k - 1]

\* C8: the filter yields exactly the records whose name or symbol contains
\* the query as a case-insensitive substring, in the order of the asset
\* sequence; the empty query yields them all.
C8_FilterExact ==
  ev.type = "filter" =>
    /\ IsExactFilter(filteredCryptos, cryptocurrencies, searchQuery)
    /\ (searchQuery = <<>> => filteredCryptos = cryptocurrencies)

\* the filter has kept some records and dropped others, for a query with an
\* upper-case letter
C8_Witness ==
  /\ ev.type = "filter"
  /\ searchQuery # toLowerCase(searchQuery)
  /\ 0 < Len(filteredCryptos) /\ Len(filteredCryptos) < Len(cryptocurrencies)

\* C9: every invocation of fetchCryptoData adds a request in flight and only
\* its own settling removes one; the asset set is the payload of the response
\* that resolved last, in whatever order the requests were issued.
C9_LastResponseWins ==
  /\ ev.issued = ev.invoked
  /\ cryptocurrencies = lastResolved

\* a response to a request issued before one that has already resolved has
\* replaced the asset set, with other requests still in flight
C9_Witness ==
  /\ IsListingSuccess /\ ev.stale
  /\ cryptocurrencies = ev.data /\ ev.prevSet # ev.data
  /\ Len(listingInFlight) > 1

\* C10: at most one refresh timer is live, it is the one the next cleanup
\* clears, and after the unmount none is live and none ticks.
C10_TimerNeverOrphaned ==
  /\ Cardinality(timers) <= 1
  /\ \A t \in timers : t.handle = interval
  /\ (~mounted => timers = {})
  /\ (ev.type = "timer" => mounted)

\* the view was unmounted after its refresh effect had run more than once
C10_Witness ==
  ~mounted /\ ev.type = "unmount" /\ Len(listingInFlight) > 1 /\ timers = {}

====
